---- MODULE Spec2Model ----
\* Cache/sync engine of transactions-web (service.py, db.py, main.py):
\* the persisted store, the cached reads, and sync_data's fetch / reconcile /
\* re-read state machine, with the event loop's scheduling (Spec); the
\* provider client and the encryptor of transactions-core (SpecProvider,
\* SpecSecurity); the configuration file of transactions-cli (SpecConfig).
EXTENDS Integers, Sequences, FiniteSets, TLC

\* ---------------------------------------------------------------- bounds
MaxUsers == 2
MaxConns == 2
MaxSyncs == 2
MaxTime == 1
\* encryption keys (values of SECRET_KEY), random IVs of Fernet.encrypt
MaxKeys == 3
MaxIV == 2
\* transactions-core: accounts per response, transactions per response,
\* distinct posting dates, characters of a balance string
MaxAccounts == 2
MaxTxns == 3
MaxDate == 3
MaxBalanceLen == 2

Users == 1..MaxUsers
ConnIds == 1..MaxConns
Syncs == 1..MaxSyncs
Times == 1..MaxTime

\* Optional[datetime] = None (db.py: last_synced_at default)
NULL == 0
\* no coroutine is running on the event loop
NoTask == 0

\* ------------------------------------------------- provider results (input)
\* models.Transaction / models.Account, the fields the cache copies that
\* the queries read (external id, date; external id)
Txn(i, d) == [id |-> i, date |-> d]
Acct(i, n) == [id |-> i, name |-> n]

\* error strings; conn is the connection id the string carries (0: none)
Err(k, c) == [kind |-> k, conn |-> c]
NetworkError == Err("Network Error", 0)
ApiError == Err("provider error", 0)

\* asyncio.gather(..., return_exceptions=True): a raised exception is a value
Raised == [exc |-> TRUE, recs |-> <<>>, errs |-> <<>>]
Returned(recs, errs) == [exc |-> FALSE, recs |-> recs, errs |-> errs]

\* the two results of one connection's gather(t_task, a_task): what
\* provider.get_transactions(days=60) and provider.get_accounts() hand back,
\* each a raised exception, ([], [network error]), or its records (the
\* transactions sorted by date descending) with the provider-reported errors
FetchResults ==
    { [txns |-> Raised, accts |-> Raised],
      [txns |-> Returned(<<>>, <<NetworkError>>),
       accts |-> Returned(<<>>, <<NetworkError>>)],
      [txns |-> Returned(<<Txn("t1", 1), Txn("t1", 1)>>, <<>>),
       accts |-> Returned(<<Acct("a1", "Checking")>>, <<>>)],
      [txns |-> Returned(<<Txn("t2", 2), Txn("t1", 1)>>, <<ApiError>>),
       accts |-> Returned(<<Acct("a1", "Checking"), Acct("a2", "Savings")>>, <<>>)],
      [txns |-> Returned(<<Txn("t1", 1), Txn("t1", 1)>>, <<>>),
       accts |-> Raised] }

\* ------------------------------------------------------------------ state
VARIABLES
    connection,         \* table connection: id -> [user_id, last_synced_at]
    cachedtransaction,  \* table cachedtransaction, rows in the order of
                        \* its connection_id index: (connection_id, rowid)
    cachedaccount,      \* table cachedaccount, in the same order
    pc,                 \* per sync_data invocation: position
    sync,               \* per sync_data invocation: its locals
    running,            \* the sync_data coroutine that holds the event loop
    resp,               \* the last response of a handler
    remote,             \* transactions-core: what the provider's endpoint answers
    fetched,            \* transactions-core: the last result of a fetch method
    key,                \* the key of settings.encryptor (from SECRET_KEY)
    raw_access_url,     \* add_connection: the access URL the claim returned
    access_url,         \* connection.access_url as stored
    real_url,           \* sync_data: the URL handed to the provider
    keyring,            \* transactions-cli: the key the system keyring holds
    config_file,        \* transactions-cli: the content of config.json
    saved,              \* transactions-cli: the arguments of the last save_config
    conf,               \* transactions-cli: what the last get_config returned
    provider            \* transactions-cli: what the last get_provider did

\* the state of the web application's cache and syncs, of the provider
\* client, and of one connection's credential
web == <<connection, cachedtransaction, cachedaccount, pc, sync, running, resp>>
core == <<remote, fetched>>
credential == <<key, raw_access_url, access_url, real_url>>
cli == <<keyring, config_file, saved, conf, provider>>
vars == <<connection, cachedtransaction, cachedaccount, pc, sync, running, resp,
          remote, fetched, key, raw_access_url, access_url, real_url,
          keyring, config_file, saved, conf, provider>>

\* no request has been answered by the provider, no fetch method has run
NoRemote == [kind |-> "none", errors |-> <<>>, accounts |-> <<>>]
NotFetched == [op |-> "none", result |-> Returned(<<>>, <<>>)]

\* a string: its text and, for a Fernet token, the encryptions it went
\* through (innermost first), each with its key and its random IV
Text(t) == [text |-> t, layers |-> <<>>]
EmptyString == Text("")

\* add_connection has claimed no access URL; sync_data has decrypted none
NotClaimed == [claimed |-> FALSE, url |-> EmptyString]
NotDecrypted == [at |-> "unset", url |-> EmptyString]

\* the persisted store as one value (what a transaction commits or rolls back)
Store(cn, ct, ca) == [connection |-> cn, cachedtransaction |-> ct, cachedaccount |-> ca]
DB == Store(connection, cachedtransaction, cachedaccount)

\* ---------------------------------------------------------------- helpers
Max(S) == CHOOSE x \in S : \A y \in S : y <= x

RECURSIVE SetToSeq(_)
\* ascending order: SELECT on a rowid table scans in rowid order
SetToSeq(S) ==
    IF S = {} THEN <<>>
    ELSE LET m == Max(S) IN Append(SetToSeq(S \ {m}), m)

RowsOf(table, c) == SelectSeq(table, LAMBDA r : r.connection_id = c)

RECURSIVE InsertByDateDesc(_, _)
\* place r after every row whose date is >= r.date (stable)
InsertByDateDesc(sorted, r) ==
    IF sorted = <<>> THEN <<r>>
    ELSE IF Head(sorted).date >= r.date
         THEN <<Head(sorted)>> \o InsertByDateDesc(Tail(sorted), r)
         ELSE <<r>> \o sorted

\* faulty variant of OrderByDateDesc: no ORDER BY, rows in scan order
OrderByInsertion(rows) == rows

RECURSIVE OrderByDateDesc(_)
OrderByDateDesc(rows) ==
    IF rows = <<>> THEN <<>>
    ELSE InsertByDateDesc(OrderByDateDesc(SubSeq(rows, 1, Len(rows) - 1)),
                          rows[Len(rows)])

\* ---------------------------------------------------------------- queries
\* the user that owns a cached row through the JOIN on connection (0: the
\* row joins no connection)
OwnerOf(cn, r) ==
    IF r.connection_id \in DOMAIN cn THEN cn[r.connection_id].user_id ELSE 0

\* faulty variant of SelectTransactions: the WHERE on user_id is missing
SelectTransactionsAnyUser(db, user_id) ==
    OrderByDateDesc(db.cachedtransaction)

\* service.get_dashboard_data: select(CachedTransaction).join(Connection)
\*   .where(Connection.user_id == user_id).order_by(date.desc())
SelectTransactions(db, user_id) ==
    OrderByDateDesc(
        SelectSeq(db.cachedtransaction,
                  LAMBDA r : OwnerOf(db.connection, r) = user_id))

\* faulty variant of DashboardData: lines 47-49 report the empty cache of a
\* user with connections as an error
DashboardDataWarns(db, user_id) ==
    LET transactions ==
            OrderByDateDesc(
                SelectSeq(db.cachedtransaction,
                          LAMBDA r : OwnerOf(db.connection, r) = user_id))
        connections == {c \in DOMAIN db.connection : db.connection[c].user_id = user_id}
    IN [transactions |-> transactions,
        errors |-> IF connections # {} /\ transactions = <<>>
                   THEN <<Err("No data yet", 0)>> ELSE <<>>]

\* service.get_dashboard_data returns (transactions, errors); errors = []
DashboardData(db, user_id) ==
    [transactions |-> SelectTransactions(db, user_id), errors |-> <<>>]

\* service.get_accounts: select(CachedAccount).join(Connection)
\*   .where(Connection.user_id == user_id), converted to the template's dicts
AccountsData(db, user_id) ==
    LET rows == SelectSeq(db.cachedaccount,
                          LAMBDA r : OwnerOf(db.connection, r) = user_id)
    IN [i \in 1..Len(rows) |-> [name |-> rows[i].name, error |-> FALSE]]

\* select(Connection).where(Connection.user_id == user_id).all()
SelectConnections(cn, user_id) ==
    SetToSeq({c \in DOMAIN cn : cn[c].user_id = user_id})

\* ------------------------------------------------- reconcile (service.py 125-181)
\* the points of the try block at which a database call can raise
Faults == {"none", "update", "delete", "insert", "commit"}

\* faulty variant of UpdateLastSynced: the timestamp is written to every
\* connection row
UpdateLastSyncedAll(db, c, t) ==
    [db EXCEPT !.connection =
        [d \in DOMAIN @ |-> [@[d] EXCEPT !.last_synced_at = t]]]

\* conn.last_synced_at = datetime.now(); session.add(conn)  (flushed as UPDATE)
UpdateLastSynced(db, c, t) ==
    [db EXCEPT !.connection = [@ EXCEPT ![c].last_synced_at = t]]

\* faulty variant of WipeOldData: nothing is deleted (merge)
WipeNothing(db, c) == db

\* faulty variant of WipeOldData: the cached accounts are left in place
WipeTransactionsOnly(db, c) ==
    [db EXCEPT
        !.cachedtransaction = SelectSeq(@, LAMBDA r : r.connection_id # c)]

\* 1. Wipe Old Data: delete every cached row of the connection
WipeOldData(db, c) ==
    [db EXCEPT
        !.cachedtransaction = SelectSeq(@, LAMBDA r : r.connection_id # c),
        !.cachedaccount = SelectSeq(@, LAMBDA r : r.connection_id # c)]

\* INSERT into a table kept in the order of its connection_id index
\* (connection_id, rowid): the new rows get the highest rowids
InsertRows(table, c, rows) ==
    SelectSeq(table, LAMBDA r : r.connection_id <= c)
    \o rows
    \o SelectSeq(table, LAMBDA r : r.connection_id > c)

\* 2. Insert New Transactions: one CachedTransaction per fetched record
InsertTransactions(db, c, txns) ==
    [db EXCEPT !.cachedtransaction =
        InsertRows(@, c, [i \in 1..Len(txns) |->
                [connection_id |-> c, external_id |-> txns[i].id,
                 date |-> txns[i].date]])]

\* 3. Insert New Accounts: one CachedAccount per fetched record
InsertAccounts(db, c, accounts) ==
    [db EXCEPT !.cachedaccount =
        InsertRows(@, c, [i \in 1..Len(accounts) |->
                [connection_id |-> c, external_id |-> accounts[i].id,
                 name |-> accounts[i].name]])]

\* session.commit(): the transaction's writes become the store
Commit(db, tx) == tx

\* faulty variant of Rollback: the writes made before the raise stay
RollbackKeepsWrites(db, tx) == tx

\* session.rollback(): the store is what it was when the transaction began
Rollback(db, tx) == db

\* faulty variant of Reconcile: no transaction boundary, every statement is
\* committed by itself
ReconcileAutocommit(db, c, txns, accounts, t, fault) ==
    LET tx1 == UpdateLastSynced(db, c, t)
        tx2 == WipeOldData(tx1, c)
        tx3 == InsertTransactions(tx2, c, txns)
        tx4 == InsertAccounts(tx3, c, accounts)
    IN CASE fault = "none"   -> tx4
         [] fault = "update" -> db
         [] fault = "delete" -> tx1
         [] fault = "insert" -> tx2
         [] fault = "commit" -> tx4

\* faulty variant of Reconcile: a connection whose fetches brought no
\* records is left as it is
ReconcileKeepsStale(db, c, txns, accounts, t, fault) ==
    LET tx1 == UpdateLastSynced(db, c, t)
        tx2 == WipeOldData(tx1, c)
        tx3 == InsertAccounts(InsertTransactions(tx2, c, txns), c, accounts)
    IN IF fault = "none" /\ (txns # <<>> \/ accounts # <<>>)
       THEN Commit(db, tx3) ELSE Rollback(db, tx3)

\* the try block: the statements run in the session's transaction up to the
\* one that raises; then commit, or rollback in the except branch
Reconcile(db, c, txns, accounts, t, fault) ==
    LET tx1 == UpdateLastSynced(db, c, t)
        tx2 == WipeOldData(tx1, c)
        tx3 == InsertAccounts(InsertTransactions(tx2, c, txns), c, accounts)
    IN CASE fault = "none"   -> Commit(db, tx3)
         [] fault = "update" -> Rollback(db, db)
         [] fault = "delete" -> Rollback(db, tx1)
         [] fault = "insert" -> Rollback(db, tx2)
         [] fault = "commit" -> Rollback(db, tx3)

\* faulty variant of FetchedTxns: a failed fetch of any connection empties
\* the records of all of them
FetchedTxnsAllOrNothing(results, i) ==
    IF \E k \in DOMAIN results : results[k].txns.exc \/ results[k].txns.errs # <<>>
    THEN <<>> ELSE results[i].txns.recs

\* lines 108-112: txns = [] when the transactions fetch raised, else its records
FetchedTxns(results, i) ==
    IF results[i].txns.exc THEN <<>> ELSE results[i].txns.recs

\* lines 117-121: accounts = [] when the accounts fetch raised, else its records
FetchedAccounts(results, i) ==
    IF results[i].accts.exc THEN <<>> ELSE results[i].accts.recs

\* lines 107-123: the error strings one gather result adds to all_errors
FetchErrors(c, res) ==
    (IF res.txns.exc THEN <<Err("Txn Error", c)>> ELSE res.txns.errs)
    \o (IF res.accts.exc THEN <<Err("Acct Error", c)>> ELSE res.accts.errs)

\* line 181: all_errors.append(f"DB Error Conn {conn.id}: ...")
ReconcileErrors(c, fault) ==
    IF fault = "none" THEN <<>> ELSE <<Err("DB Error", c)>>

\* ---------------------------------------------------------------- actions
\* the locals of a sync_data invocation that is not running; in_except tells
\* that the last iteration of the reconcile loop ran its except branch
\* (lines 179-181)
IdleSync ==
    [user_id |-> 0, connections |-> <<>>, results |-> <<>>, idx |-> 0,
     all_errors |-> <<>>, in_except |-> FALSE]

\* no response is being delivered
NoResponse ==
    [op |-> "none", user_id |-> 0, transactions |-> <<>>, errors |-> <<>>,
     accounts |-> <<>>]

\* what a handler hands to its template
Response(op, u, data) ==
    [NoResponse EXCEPT !.op = op, !.user_id = u,
        !.transactions = data.transactions, !.errors = data.errors]

InitWeb ==
    /\ connection = <<>>
    /\ cachedtransaction = <<>>
    /\ cachedaccount = <<>>
    /\ pc = [s \in Syncs |-> "idle"]
    /\ sync = [s \in Syncs |-> IdleSync]
    /\ running = NoTask
    /\ resp = NoResponse

InitCore ==
    /\ remote = NoRemote
    /\ fetched = NotFetched

InitCredential ==
    /\ key = 1
    /\ raw_access_url = NotClaimed
    /\ access_url = EmptyString
    /\ real_url = NotDecrypted

\* transactions-cli before `finance setup`: no key in the keyring, no
\* config file, nothing saved or read
NoKey == 0
NoFile == [provider |-> "", payload |-> <<>>, written |-> FALSE]
EmptyConfig == [provider |-> "", payload |-> <<>>]
NoProvider == [at |-> "unset", access_url |-> EmptyString]

InitCli ==
    /\ keyring = NoKey
    /\ config_file = NoFile
    /\ saved = EmptyConfig
    /\ conf = EmptyConfig
    /\ provider = NoProvider

Init == InitWeb /\ InitCore /\ InitCredential /\ InitCli

\* main.dashboard -> service.get_dashboard_data (lines 26-51)
Read(u) ==
    /\ running = NoTask
    /\ resp' = Response("read", u, DashboardData(DB, u))
    /\ UNCHANGED <<connection, cachedtransaction, cachedaccount, pc, sync, running>>
    /\ UNCHANGED <<core, credential, cli>>

\* main.settings_page / accounts_partial -> service.get_accounts (lines 54-73)
Accounts(u) ==
    /\ running = NoTask
    /\ resp' = [NoResponse EXCEPT !.op = "accounts", !.user_id = u,
                    !.accounts = AccountsData(DB, u)]
    /\ UNCHANGED <<connection, cachedtransaction, cachedaccount, pc, sync, running>>
    /\ UNCHANGED <<core, credential, cli>>

\* faulty variant of SyncReturnValue: the rows are returned as stored, not
\* through the read path
SyncReturnValueUnordered(db, user_id) ==
    [transactions |-> SelectSeq(db.cachedtransaction,
                                LAMBDA r : OwnerOf(db.connection, r) = user_id),
     errors |-> <<>>]

\* line 183: return await get_dashboard_data(session, user_id)
SyncReturnValue(db, user_id) == DashboardData(db, user_id)

\* faulty variant of SyncStart: the connections are selected without the
\* WHERE on user_id
SyncStartAnyUser(s, u) ==
    /\ running = NoTask
    /\ pc[s] = "idle"
    /\ \A r \in Syncs : r < s => pc[r] # "idle"
    /\ LET conns == SetToSeq(DOMAIN connection) IN
        IF conns = <<>>
        THEN /\ resp' = Response("sync", u, SyncReturnValue(DB, u))
             /\ UNCHANGED <<pc, sync>>
        ELSE /\ pc' = [pc EXCEPT ![s] = "fetching"]
             /\ sync' = [sync EXCEPT ![s] =
                    [IdleSync EXCEPT !.user_id = u, !.connections = conns]]
             /\ resp' = NoResponse
    /\ UNCHANGED <<connection, cachedtransaction, cachedaccount, running>>
    /\ UNCHANGED <<core, credential, cli>>

\* sync_data lines 80-100: enumerate the connections; with none, fall through
\* to the re-read and return (no await); otherwise start the fetches and
\* await the gather
SyncStart(s, u) ==
    /\ running = NoTask
    /\ pc[s] = "idle"
    /\ \A r \in Syncs : r < s => pc[r] # "idle"
    /\ LET conns == SelectConnections(connection, u) IN
        IF conns = <<>>
        THEN /\ resp' = Response("sync", u, SyncReturnValue(DB, u))
             /\ UNCHANGED <<pc, sync>>
        ELSE /\ pc' = [pc EXCEPT ![s] = "fetching"]
             /\ sync' = [sync EXCEPT ![s] =
                    [IdleSync EXCEPT !.user_id = u, !.connections = conns]]
             /\ resp' = NoResponse
    /\ UNCHANGED <<connection, cachedtransaction, cachedaccount, running>>
    /\ UNCHANGED <<core, credential, cli>>

\* faulty variant of Gather: the coroutine resumes when the first
\* connection's fetches are done (the others are still in flight)
GatherFirstCompleted(s) ==
    /\ running = NoTask
    /\ pc[s] = "fetching"
    /\ \E res \in [{1} -> FetchResults] :
          sync' = [sync EXCEPT ![s].results = res, ![s].idx = 1]
    /\ pc' = [pc EXCEPT ![s] = "reconcile"]
    /\ running' = s
    /\ resp' = NoResponse
    /\ UNCHANGED <<connection, cachedtransaction, cachedaccount>>
    /\ UNCHANGED <<core, credential, cli>>

\* line 100: results = await asyncio.gather(*tasks): every fetch of every
\* connection has returned or raised; the coroutine resumes and runs the
\* reconcile loop without awaiting
Gather(s) ==
    /\ running = NoTask
    /\ pc[s] = "fetching"
    /\ \E res \in [1..Len(sync[s].connections) -> FetchResults] :
          sync' = [sync EXCEPT ![s].results = res, ![s].idx = 1]
    /\ pc' = [pc EXCEPT ![s] = "reconcile"]
    /\ running' = s
    /\ resp' = NoResponse
    /\ UNCHANGED <<connection, cachedtransaction, cachedaccount>>
    /\ UNCHANGED <<core, credential, cli>>

\* datetime.now() is not earlier than any timestamp already stored
Clock(cn) == {t \in Times : \A c \in DOMAIN cn : cn[c].last_synced_at <= t}

\* lines 102-181, one iteration of the loop over zip(connections, results).
\* A connection row that no longer exists makes the reload of the expired
\* conn (conn.id) raise out of sync_data.
ReconcileConn(s) ==
    /\ running = s
    /\ pc[s] = "reconcile"
    /\ LET i == sync[s].idx
           c == sync[s].connections[i]
           res == sync[s].results[i]
           txns == FetchedTxns(sync[s].results, i)
           accounts == FetchedAccounts(sync[s].results, i)
           last == i = Len(sync[s].connections)
       IN IF c \notin DOMAIN connection
          THEN /\ pc' = [pc EXCEPT ![s] = "idle"]
               /\ sync' = [sync EXCEPT ![s] = IdleSync]
               /\ running' = NoTask
               /\ resp' = [NoResponse EXCEPT !.op = "sync raised",
                                             !.user_id = sync[s].user_id]
               /\ UNCHANGED <<connection, cachedtransaction, cachedaccount>>
          ELSE \E fault \in Faults, t \in Clock(connection) :
               LET db == Reconcile(DB, c, txns, accounts, t, fault) IN
               /\ connection' = db.connection
               /\ cachedtransaction' = db.cachedtransaction
               /\ cachedaccount' = db.cachedaccount
               /\ sync' = [sync EXCEPT
                              ![s].all_errors = @ \o FetchErrors(c, res)
                                                  \o ReconcileErrors(c, fault),
                              ![s].in_except = fault # "none",
                              ![s].idx = i + 1]
               /\ pc' = [pc EXCEPT ![s] = IF last THEN "exiting" ELSE "reconcile"]
               /\ UNCHANGED running
               /\ resp' = NoResponse
    /\ UNCHANGED <<core, credential, cli>>

\* the end of the `async with httpx.AsyncClient(...)` block (lines 87-181):
\* the client is closed (await client.aclose()). When that await suspends,
\* other requests run before line 183. Line 183 reads user_id only; the
\* other locals are dead from here on.
ExitClient(s) ==
    /\ running = s
    /\ pc[s] = "exiting"
    /\ pc' = [pc EXCEPT ![s] = "closing"]
    /\ sync' = [sync EXCEPT ![s] = [IdleSync EXCEPT !.user_id = sync[s].user_id]]
    /\ running' = NoTask
    /\ UNCHANGED <<connection, cachedtransaction, cachedaccount, resp>>
    /\ UNCHANGED <<core, credential, cli>>

\* line 183, reached in the same turn of the event loop as the end of the
\* loop ("exiting") or after the close suspended ("closing"); the route
\* (main.transactions_sync) renders the returned pair and the request ends
SyncReturn(s) ==
    /\ \/ pc[s] = "exiting" /\ running = s
       \/ pc[s] = "closing" /\ running = NoTask
    /\ resp' = Response("sync", sync[s].user_id, SyncReturnValue(DB, sync[s].user_id))
    /\ sync' = [sync EXCEPT ![s] = IdleSync]
    /\ pc' = [pc EXCEPT ![s] = "idle"]
    /\ running' = NoTask
    /\ UNCHANGED <<connection, cachedtransaction, cachedaccount>>
    /\ UNCHANGED <<core, credential, cli>>

\* ------------------------------------------------ token claim (simplefin.py 24-41)
\* a setup token as the user typed it: with or without the "sfin:" prefix,
\* and whether base64.b64decode(...).decode("utf-8") of the rest succeeds
SetupTokens == [prefix : BOOLEAN, decodes : BOOLEAN]

\* what client.post(claim_url) / resp.raise_for_status() does: a response
\* with a success status, a transport error, or a non-success status
ClaimPosts == {"ok", "transport error", "bad status"}

ClaimRaised(msg) == [raised |-> TRUE, error |-> msg]
Claimed == [raised |-> FALSE, error |-> ""]

\* SimpleFinProvider.claim_token: strip the prefix, decode (ValueError
\* "Invalid token format" when that raises), POST once (ValueError "Failed
\* to claim token" on httpx.HTTPError), return the trimmed body
ClaimToken(setup_token, post) ==
    LET rest == [setup_token EXCEPT !.prefix = FALSE] IN
    IF ~rest.decodes THEN ClaimRaised("Invalid token format")
    ELSE IF post # "ok" THEN ClaimRaised("Failed to claim token")
    ELSE Claimed

\* what claim_token can do, over the tokens and the outcomes of the POST
ClaimResults == {ClaimToken(t, p) : t \in SetupTokens, p \in ClaimPosts}

\* the row add_connection inserts: rowid = max + 1, never synced
NewConnectionId(cn) == IF DOMAIN cn = {} THEN 1 ELSE Max(DOMAIN cn) + 1
WithConnection(cn, id, u) ==
    [c \in DOMAIN cn \cup {id} |->
        IF c = id THEN [user_id |-> u, last_synced_at |-> NULL] ELSE cn[c]]

\* faulty variant of AddConnection: the row is inserted and committed before
\* the token is claimed, so a failed claim leaves it behind
AddConnectionBeforeClaim(s, u) ==
    /\ running = NoTask
    /\ pc[s] = "idle"
    /\ \A r \in Syncs : r < s => pc[r] # "idle"
    /\ NewConnectionId(connection) \in ConnIds
    /\ \E claim \in ClaimResults :
        LET id == NewConnectionId(connection)
            cn == WithConnection(connection, id, u)
        IN /\ connection' = cn
           /\ IF claim.raised
              THEN /\ resp' = [NoResponse EXCEPT !.op = "connect raised", !.user_id = u]
                   /\ UNCHANGED <<pc, sync>>
              ELSE /\ pc' = [pc EXCEPT ![s] = "fetching"]
                   /\ sync' = [sync EXCEPT ![s] =
                          [IdleSync EXCEPT !.user_id = u,
                              !.connections = SelectConnections(cn, u)]]
                   /\ resp' = NoResponse
    /\ UNCHANGED <<cachedtransaction, cachedaccount, running>>
    /\ UNCHANGED <<core, credential, cli>>

\* main.connect_bank -> service.add_connection lines 10-23: claim the token
\* (line 13; a raise leaves add_connection there and the route reports
\* "Connection failed"); then insert the connection row, commit, and await
\* sync_data
AddConnection(s, u) ==
    /\ running = NoTask
    /\ \E claim \in ClaimResults :
        IF claim.raised
        THEN /\ resp' = [NoResponse EXCEPT !.op = "connect raised", !.user_id = u]
             /\ UNCHANGED <<connection, pc, sync>>
        ELSE LET id == NewConnectionId(connection)
                 cn == WithConnection(connection, id, u)
             IN /\ pc[s] = "idle"
                /\ \A r \in Syncs : r < s => pc[r] # "idle"
                /\ id \in ConnIds
                /\ connection' = cn
                /\ pc' = [pc EXCEPT ![s] = "fetching"]
                /\ sync' = [sync EXCEPT ![s] =
                       [IdleSync EXCEPT !.user_id = u,
                           !.connections = SelectConnections(cn, u)]]
                /\ resp' = NoResponse
    /\ UNCHANGED <<cachedtransaction, cachedaccount, running>>
    /\ UNCHANGED <<core, credential, cli>>

\* faulty variant of CancelledStore: the cancellation lands after a wipe
\* whose inserts never ran, for the connections of the user
CancelledMidReconcile(db, user_id) ==
    [db EXCEPT !.cachedtransaction =
        SelectSeq(@, LAMBDA r : OwnerOf(db.connection, r) # user_id)]

\* the store after a cancelled sync_data: nothing is written on the way out
\* (CancelledError is raised at an await, outside the try block; the
\* session is closed by get_session with no write pending)
CancelledStore(db, user_id) == db

\* the caller abandons the request: CancelledError is raised in sync_data
\* at the await it is suspended on, line 100 (the gather; the fetches are
\* cancelled with it) or the close of the client at the end of the
\* `async with`; sync_data returns nothing
Cancel(s) ==
    /\ running = NoTask
    /\ pc[s] \in {"fetching", "closing"}
    /\ LET db == CancelledStore(DB, sync[s].user_id) IN
        /\ connection' = db.connection
        /\ cachedtransaction' = db.cachedtransaction
        /\ cachedaccount' = db.cachedaccount
    /\ resp' = [NoResponse EXCEPT
                    !.op = IF pc[s] = "fetching" THEN "cancelled in fetch"
                           ELSE "cancelled in close",
                    !.user_id = sync[s].user_id]
    /\ sync' = [sync EXCEPT ![s] = IdleSync]
    /\ pc' = [pc EXCEPT ![s] = "idle"]
    /\ UNCHANGED running
    /\ UNCHANGED <<core, credential, cli>>

\* faulty variant of Disconnect: the connection row alone is deleted, the
\* relationships carry no delete cascade
DisconnectNoCascade(u, c) ==
    /\ running = NoTask
    /\ IF c \in DOMAIN connection /\ connection[c].user_id = u
       THEN /\ connection' = [d \in DOMAIN connection \ {c} |-> connection[d]]
            /\ resp' = [NoResponse EXCEPT !.op = "disconnected", !.user_id = u]
       ELSE /\ UNCHANGED connection
            /\ resp' = [NoResponse EXCEPT !.op = "not disconnected", !.user_id = u]
    /\ UNCHANGED <<cachedtransaction, cachedaccount, pc, sync, running>>
    /\ UNCHANGED <<core, credential, cli>>

\* faulty variant of Disconnect: the owner of the connection is not compared
\* with the user
DisconnectAnyUser(u, c) ==
    /\ running = NoTask
    /\ IF c \in DOMAIN connection
       THEN /\ connection' = [d \in DOMAIN connection \ {c} |-> connection[d]]
            /\ cachedtransaction' =
                   SelectSeq(cachedtransaction, LAMBDA r : r.connection_id # c)
            /\ cachedaccount' =
                   SelectSeq(cachedaccount, LAMBDA r : r.connection_id # c)
            /\ resp' = [NoResponse EXCEPT !.op = "disconnected", !.user_id = u]
       ELSE /\ UNCHANGED <<connection, cachedtransaction, cachedaccount>>
            /\ resp' = [NoResponse EXCEPT !.op = "not disconnected", !.user_id = u]
    /\ UNCHANGED <<pc, sync, running>>
    /\ UNCHANGED <<core, credential, cli>>

\* main.disconnect_bank lines 259-269: delete the connection when it exists
\* and is the user's (the relationship cascade deletes its cached rows in
\* the same flush; commit), otherwise nothing; redirect in both cases
Disconnect(u, c) ==
    /\ running = NoTask
    /\ IF c \in DOMAIN connection /\ connection[c].user_id = u
       THEN /\ connection' = [d \in DOMAIN connection \ {c} |-> connection[d]]
            /\ cachedtransaction' =
                   SelectSeq(cachedtransaction, LAMBDA r : r.connection_id # c)
            /\ cachedaccount' =
                   SelectSeq(cachedaccount, LAMBDA r : r.connection_id # c)
            /\ resp' = [NoResponse EXCEPT !.op = "disconnected", !.user_id = u]
       ELSE /\ UNCHANGED <<connection, cachedtransaction, cachedaccount>>
            /\ resp' = [NoResponse EXCEPT !.op = "not disconnected", !.user_id = u]
    /\ UNCHANGED <<pc, sync, running>>
    /\ UNCHANGED <<core, credential, cli>>

Next ==
    \/ \E u \in Users : Read(u)
    \/ \E u \in Users : Accounts(u)
    \/ \E s \in Syncs, u \in Users : SyncStart(s, u)
    \/ \E s \in Syncs : Gather(s)
    \/ \E s \in Syncs : ReconcileConn(s)
    \/ \E s \in Syncs : ExitClient(s)
    \/ \E s \in Syncs : SyncReturn(s)
    \/ \E s \in Syncs, u \in Users : AddConnection(s, u)
    \/ \E s \in Syncs : Cancel(s)
    \/ \E u \in Users, c \in ConnIds : Disconnect(u, c)

Spec == Init /\ [][Next]_vars

\* ============================================ transactions-core: provider
\* ------------------------------------------------ models.py: Account.from_dict
\* the characters of a balance string: a digit, the grouping separator, a
\* character that is neither
BalanceChars == {"1", ",", "x"}
BalanceStrings == UNION {[1..n -> BalanceChars] : n \in 0..MaxBalanceLen}

\* the account dict has no "balance" key
Missing == <<"missing">>

\* balance_raw.replace(",", "")
StripCommas(str) == SelectSeq(str, LAMBDA ch : ch # ",")

\* Decimal(str) of a string of digits; anything else (the empty string
\* included) raises decimal.InvalidOperation
ParsesAsDecimal(str) == str # <<>> /\ \A i \in DOMAIN str : str[i] \in {"0", "1"}
RECURSIVE DecimalValue(_)
DecimalValue(str) ==
    IF str = <<>> THEN 0
    ELSE 10 * DecimalValue(SubSeq(str, 1, Len(str) - 1))
         + (IF str[Len(str)] = "1" THEN 1 ELSE 0)

\* Account.from_dict (lines 16-29): balance_raw = data.get("balance", "0"),
\* commas stripped, Decimal(balance_raw); the conversion is not guarded
AccountFromDict(data) ==
    LET balance_raw == IF data.balance = Missing THEN <<"0">>
                       ELSE StripCommas(data.balance)
    IN IF ParsesAsDecimal(balance_raw)
       THEN [raised |-> FALSE,
             account |-> [id |-> data.id, balance |-> DecimalValue(balance_raw)]]
       ELSE [raised |-> TRUE, account |-> [id |-> data.id, balance |-> 0]]

\* Transaction.from_dict (lines 43-73): the id and the date of "posted"
TransactionFromDict(data, account) == [id |-> data.id, date |-> data.posted]

\* ------------------------------------------------ the provider's answers
\* an account dict of the response body
AccountDict(i, balance, transactions) ==
    [id |-> i, balance |-> balance, transactions |-> transactions]

\* the "accounts" lists of k accounts that vary the balances (no
\* transactions)
AccountListsByBalance(k) ==
    { [i \in 1..k |-> AccountDict(i, b[i], <<>>)] :
        b \in [1..k -> BalanceStrings \cup {Missing}] }

\* the "accounts" lists that vary the transactions: n transactions with
\* their posting dates, dealt in order to k accounts
AccountListsByTxns(k, n) ==
    { [a \in 1..k |->
          AccountDict(a, Missing,
             SelectSeq([i \in 1..n |->
                           [id |-> i, posted |-> d[i], account |-> o[i]]],
                       LAMBDA t : t.account = a))] :
        d \in [1..n -> 1..MaxDate],
        o \in {f \in [1..n -> 1..k] : \A i \in 1..(n - 1) : f[i] <= f[i + 1]} }

\* the "errors" list of the response body
ProviderErrors == {<<>>, <<ApiError>>}
NotJsonError == Err("Invalid API Response: Not JSON", 0)

\* what GET {access_url}/accounts does: a transport failure, a non-success
\* status, a body that is not JSON, or a JSON object
FailedRemotes ==
    { [NoRemote EXCEPT !.kind = k] : k \in {"transport error", "bad status", "not json"} }
JsonRemote(errors, accounts) ==
    [kind |-> "json", errors |-> errors, accounts |-> accounts]

\* ------------------------------------------------ simplefin.py
\* _fetch_data (lines 43-61): (json, []) or (None, [error string]);
\* raise_for_status raises httpx.HTTPStatusError, an httpx.HTTPError
FetchData(r) ==
    CASE r.kind \in {"transport error", "bad status"} ->
            [data |-> FALSE, errors |-> <<NetworkError>>]
      [] r.kind = "not json" -> [data |-> FALSE, errors |-> <<NotJsonError>>]
      [] OTHER -> [data |-> TRUE, errors |-> <<>>]

\* get_accounts (lines 63-78)
GetAccountsResult(r) ==
    LET f == FetchData(r) IN
    IF ~f.data THEN Returned(<<>>, f.errors)
    ELSE LET errors == f.errors \o r.errors
             parsed == [i \in DOMAIN r.accounts |-> AccountFromDict(r.accounts[i])]
         IN IF \E i \in DOMAIN parsed : parsed[i].raised
            THEN Raised
            ELSE Returned([i \in DOMAIN parsed |-> parsed[i].account], errors)

RECURSIVE FlattenTransactions(_)
\* lines 98-101: for acc in accounts: for t in acc["transactions"]: append
FlattenTransactions(accounts) ==
    IF accounts = <<>> THEN <<>>
    ELSE LET acc == Head(accounts) IN
         [i \in DOMAIN acc.transactions |->
             TransactionFromDict(acc.transactions[i], acc)]
         \o FlattenTransactions(Tail(accounts))

RECURSIVE InsertBeforeTies(_, _)
\* place r before every row whose date is <= r.date
InsertBeforeTies(sorted, r) ==
    IF sorted = <<>> THEN <<r>>
    ELSE IF Head(sorted).date > r.date
         THEN <<Head(sorted)>> \o InsertBeforeTies(Tail(sorted), r)
         ELSE <<r>> \o sorted

RECURSIVE SortAscendingReversed(_)
\* faulty variant of SortByDateReverse: descending, with equal dates in the
\* reverse of the input order (sort ascending, then reverse the list)
SortAscendingReversed(transactions) ==
    IF transactions = <<>> THEN <<>>
    ELSE InsertBeforeTies(
            SortAscendingReversed(SubSeq(transactions, 1, Len(transactions) - 1)),
            transactions[Len(transactions)])

\* line 103: transactions.sort(key=lambda x: x.date, reverse=True); the
\* sort is stable, and reverse=True keeps equal dates in input order
SortByDateReverse(transactions) == OrderByDateDesc(transactions)

\* get_transactions (lines 80-104)
GetTransactionsResult(r) ==
    LET f == FetchData(r) IN
    IF ~f.data THEN Returned(<<>>, f.errors)
    ELSE Returned(SortByDateReverse(FlattenTransactions(r.accounts)),
                  f.errors \o r.errors)

\* a caller awaits provider.get_accounts()
GetAccounts ==
    /\ remote.kind # "none"
    /\ fetched' = [op |-> "get_accounts", result |-> GetAccountsResult(remote)]
    /\ UNCHANGED <<web, remote, credential, cli>>

\* a caller awaits provider.get_transactions()
GetTransactions ==
    /\ remote.kind # "none"
    /\ fetched' = [op |-> "get_transactions", result |-> GetTransactionsResult(remote)]
    /\ UNCHANGED <<web, remote, credential, cli>>

InitProvider ==
    /\ InitWeb
    /\ InitCredential
    /\ InitCli
    /\ fetched = NotFetched
    /\ \/ remote \in FailedRemotes
       \/ \E e \in ProviderErrors, k \in 0..MaxAccounts :
             \E a \in AccountListsByBalance(k) : remote = JsonRemote(e, a)
       \/ \E e \in ProviderErrors, k \in 1..MaxAccounts, n \in 1..MaxTxns :
             \E a \in AccountListsByTxns(k, n) : remote = JsonRemote(e, a)

NextProvider == GetAccounts \/ GetTransactions

SpecProvider == InitProvider /\ [][NextProvider]_vars

\* ============================================ transactions-core: security
Keys == 1..MaxKeys
IVs == 1..MaxIV

\* the access URLs a claim can return (resp.text.strip()), the empty body
\* included
AccessUrls ==
    {EmptyString, Text("https://bridge/access"), Text("https://bridge/other")}

\* strings a connection row can hold that no encrypt of this application
\* produced: plain text, and tokens made under any key
ForeignStrings ==
    {Text("not a token"), Text("https://bridge/access")}
    \cup { [text |-> "https://bridge/access", layers |-> <<[key |-> k, iv |-> iv]>>] :
             k \in Keys, iv \in IVs }

\* Fernet(key).decrypt(token) succeeds: the token's outermost encryption
\* was made with this key
ValidToken(k, token) ==
    token.layers # <<>> /\ token.layers[Len(token.layers)].key = k

\* faulty variant of Encrypt: the empty string is encrypted like any other
EncryptAlways(k, iv, data) ==
    [data EXCEPT !.layers = Append(@, [key |-> k, iv |-> iv])]

\* faulty variant of Encrypt: the string is stored as it is
EncryptNothing(k, iv, data) == data

\* Encryptor.encrypt (lines 35-38): "" for the empty string, else a fresh
\* token around the data
Encrypt(k, iv, data) ==
    IF data = EmptyString THEN EmptyString
    ELSE [data EXCEPT !.layers = Append(@, [key |-> k, iv |-> iv])]

\* faulty variant of Decrypt: no fallback, InvalidToken propagates
DecryptStrict(k, token) ==
    IF token = EmptyString THEN [raised |-> FALSE, value |-> EmptyString]
    ELSE IF ValidToken(k, token)
         THEN [raised |-> FALSE,
               value |-> [token EXCEPT !.layers = SubSeq(@, 1, Len(@) - 1)]]
         ELSE [raised |-> TRUE, value |-> token]

\* Encryptor.decrypt (lines 40-47): "" for the empty string; the data of a
\* token of this key; the token itself when Fernet raises (except Exception)
Decrypt(k, token) ==
    IF token = EmptyString THEN [raised |-> FALSE, value |-> EmptyString]
    ELSE IF ValidToken(k, token)
         THEN [raised |-> FALSE,
               value |-> [token EXCEPT !.layers = SubSeq(@, 1, Len(@) - 1)]]
         ELSE [raised |-> FALSE, value |-> token]

\* service.add_connection lines 13-18: the claimed URL is encrypted with the
\* current key and stored in the connection row
StoreCredential ==
    /\ \E url \in AccessUrls, iv \in IVs :
          /\ raw_access_url' = [claimed |-> TRUE, url |-> url]
          /\ access_url' = Encrypt(key, iv, url)
    /\ real_url' = NotDecrypted
    /\ UNCHANGED <<web, core, cli, key>>

\* the row holds a string this application did not encrypt (a row from
\* before encryption was introduced, a token of another installation)
ImportCredential ==
    /\ \E str \in ForeignStrings : access_url' = str
    /\ raw_access_url' = NotClaimed
    /\ real_url' = NotDecrypted
    /\ UNCHANGED <<web, core, cli, key>>

\* the application restarts with another SECRET_KEY (config.py lines 8-30)
ChangeKey ==
    /\ \E k \in Keys \ {key} : key' = k
    /\ real_url' = NotDecrypted
    /\ UNCHANGED <<web, core, cli, raw_access_url, access_url>>

\* service.sync_data lines 89-91: real_url = decrypt(conn.access_url);
\* provider = SimpleFinProvider(real_url, client); a raise would leave
\* sync_data before any fetch
DecryptForSync ==
    /\ LET d == Decrypt(key, access_url) IN
          real_url' = IF d.raised THEN [at |-> "raised", url |-> EmptyString]
                      ELSE [at |-> "provider", url |-> d.value]
    /\ UNCHANGED <<web, core, cli, key, raw_access_url, access_url>>

InitSecurity ==
    /\ InitWeb
    /\ InitCore
    /\ InitCli
    /\ key \in Keys
    /\ raw_access_url = NotClaimed
    /\ access_url = EmptyString
    /\ real_url = NotDecrypted

NextSecurity ==
    \/ StoreCredential
    \/ ImportCredential
    \/ ChangeKey
    \/ DecryptForSync

SpecSecurity == InitSecurity /\ [][NextSecurity]_vars

\* ============================================ transactions-cli: config
\* a payload value that is not a string (isinstance(v, str) is false)
Number(n) == [number |-> n]
StringValue(v) == "text" \in DOMAIN v

\* the values of a payload, the provider names, and the payloads
\* save_config is given (main.setup: {"access_url": access_url})
ConfigValues == AccessUrls \cup {Number(60)}
ProviderNames == {"simplefin", "plaid"}
Payloads == [access_url : ConfigValues]

\* _get_encryptor (lines 17-45): the key of the keyring when it holds one;
\* otherwise a freshly generated key, which set_password stores unless it
\* raises (the except branch only prints); nothing else keeps the new key
GetEncryptor(stored_key, new_key, set_ok) ==
    IF stored_key # NoKey
    THEN [key |-> stored_key, keyring |-> stored_key]
    ELSE [key |-> new_key, keyring |-> IF set_ok THEN new_key ELSE NoKey]

\* save_config lines 81-86: string values are encrypted, others copied
SecurePayload(k, iv, payload) ==
    [f \in DOMAIN payload |->
        IF StringValue(payload[f]) THEN Encrypt(k, iv, payload[f]) ELSE payload[f]]

\* get_config lines 57-70: json.load gives back what json.dump wrote;
\* every string value of the payload is replaced by its decrypt; any
\* exception makes the result {}
DecryptedConfig(k, file) ==
    LET d == [f \in DOMAIN file.payload |->
                 IF StringValue(file.payload[f]) THEN Decrypt(k, file.payload[f])
                 ELSE [raised |-> FALSE, value |-> file.payload[f]]]
    IN IF \E f \in DOMAIN d : d[f].raised THEN EmptyConfig
       ELSE [provider |-> file.provider, payload |-> [f \in DOMAIN d |-> d[f].value]]

\* factory.get_provider lines 10-27 on the dict get_config returned
ProviderFor(c) ==
    LET raised == [at |-> "raised", access_url |-> EmptyString] IN
    IF c.provider = "" THEN raised
    ELSE IF c.provider = "simplefin"
         THEN IF "access_url" \notin DOMAIN c.payload THEN raised
              ELSE IF c.payload.access_url = EmptyString THEN raised
              ELSE [at |-> "built", access_url |-> c.payload.access_url]
         ELSE raised

\* config.save_config (lines 73-91), called by `finance setup`
SaveConfig ==
    /\ \E provider_name \in ProviderNames, payload \in Payloads,
          new_key \in Keys, set_ok \in BOOLEAN, iv \in IVs :
          LET e == GetEncryptor(keyring, new_key, set_ok) IN
          /\ keyring' = e.keyring
          /\ config_file' = [provider |-> provider_name,
                             payload |-> SecurePayload(e.key, iv, payload),
                             written |-> TRUE]
          /\ saved' = [provider |-> provider_name, payload |-> payload]
    /\ conf' = EmptyConfig
    /\ provider' = NoProvider
    /\ UNCHANGED <<web, core, credential>>

\* factory.get_provider -> config.get_config (lines 48-70), in the process
\* that saved or in a later one: without the file, {} and no encryptor;
\* otherwise _get_encryptor runs again
GetProvider ==
    /\ IF ~config_file.written
       THEN /\ conf' = EmptyConfig
            /\ UNCHANGED keyring
       ELSE \E new_key \in Keys, set_ok \in BOOLEAN :
               LET e == GetEncryptor(keyring, new_key, set_ok) IN
               /\ keyring' = e.keyring
               /\ conf' = DecryptedConfig(e.key, config_file)
    /\ provider' = ProviderFor(conf')
    /\ UNCHANGED <<config_file, saved>>
    /\ UNCHANGED <<web, core, credential>>

InitConfig ==
    /\ InitWeb
    /\ InitCore
    /\ InitCredential
    /\ keyring \in Keys \cup {NoKey}
    /\ config_file = NoFile
    /\ saved = EmptyConfig
    /\ conf = EmptyConfig
    /\ provider = NoProvider

NextConfig == SaveConfig \/ GetProvider

SpecConfig == InitConfig /\ [][NextConfig]_vars

\* ================================================================ claims
Range(seq) == {seq[i] : i \in DOMAIN seq}
Count(seq, r) == Cardinality({i \in DOMAIN seq : seq[i] = r})
SameBag(a, b) == \A r \in Range(a) \cup Range(b) : Count(a, r) = Count(b, r)

\* the cached rows a list of fetched records is stored as
AsTxnRows(c, recs) ==
    [i \in DOMAIN recs |->
        [connection_id |-> c, external_id |-> recs[i].id, date |-> recs[i].date]]
AsAcctRows(c, recs) ==
    [i \in DOMAIN recs |->
        [connection_id |-> c, external_id |-> recs[i].id, name |-> recs[i].name]]

\* a fetch of a gather result failed: it raised, or returned error strings
\* and no records
FetchFailed(r) == r.exc \/ (r.recs = <<>> /\ r.errs # <<>>)
NetworkFailed(r) == ~r.exc /\ r.recs = <<>> /\ r.errs = <<NetworkError>>

\* this step is one completed iteration of invocation s's reconcile loop
IterationStep(s) ==
    /\ pc[s] = "reconcile"
    /\ pc'[s] \in {"reconcile", "exiting"}
    /\ sync'[s].idx = sync[s].idx + 1

\* the connection and the gather result of the iteration about to run
IterConn(s) == sync[s].connections[sync[s].idx]
IterResult(s) == sync[s].results[sync[s].idx]

\* this step is invocation s returning from line 183 with its locals
\* still live (no other request ran since the loop ended)
ReturnStep(s) == pc[s] = "exiting" /\ resp'.op = "sync"

\* C1: every sync returns, with the re-read cache, every error string its
\* fetch and reconcile phases produced (all_errors); so with at least one
\* such error the returned list is non-empty.
C1_ReturnsAllErrors ==
    [][ \A s \in Syncs :
          ReturnStep(s) =>
              \A e \in Range(sync[s].all_errors) : e \in Range(resp'.errors) ]_vars

\* C2: whatever the interleaving, a connection's cached rows change only as
\* a whole: a step leaves them as they were, replaces them by the complete
\* record lists of the reconcile that commits in that step, or removes them
\* with the connection; and a read returns, for each connection of the
\* user, exactly the rows the store holds for it.
C2_ConnUnchanged(c) ==
    /\ RowsOf(cachedtransaction', c) = RowsOf(cachedtransaction, c)
    /\ RowsOf(cachedaccount', c) = RowsOf(cachedaccount, c)

C2_ConnReplaced(c) ==
    \E s \in Syncs :
        /\ IterationStep(s)
        /\ IterConn(s) = c
        /\ RowsOf(cachedtransaction', c) =
               AsTxnRows(c, FetchedTxns(sync[s].results, sync[s].idx))
        /\ RowsOf(cachedaccount', c) =
               AsAcctRows(c, FetchedAccounts(sync[s].results, sync[s].idx))

C2_ConnDeleted(c) ==
    /\ c \in DOMAIN connection
    /\ c \notin DOMAIN connection'
    /\ RowsOf(cachedtransaction', c) = <<>>
    /\ RowsOf(cachedaccount', c) = <<>>

C2_ReadSeesStore ==
    resp'.op = "read" =>
        \A c \in ConnIds :
            SameBag(SelectSeq(resp'.transactions, LAMBDA r : r.connection_id = c),
                    IF OwnerOf(connection', [connection_id |-> c]) = resp'.user_id
                    THEN RowsOf(cachedtransaction', c) ELSE <<>>)

C2_ReadsSeeOldOrNew ==
    [][ /\ \A c \in ConnIds :
              C2_ConnUnchanged(c) \/ C2_ConnReplaced(c) \/ C2_ConnDeleted(c)
        /\ C2_ReadSeesStore ]_vars

\* a read returned rows while a sync of the same user was in flight
C2_Witness ==
    /\ resp.op = "read"
    /\ resp.transactions # <<>>
    /\ \E s \in Syncs : pc[s] \in {"fetching", "closing"}
                        /\ sync[s].user_id = resp.user_id

C4_WipeAndReplace ==
    [][ \A s \in Syncs :
          (IterationStep(s) /\ ~sync'[s].in_except) =>
              LET c == IterConn(s)
                  txns == FetchedTxns(sync[s].results, sync[s].idx)
                  accounts == FetchedAccounts(sync[s].results, sync[s].idx)
              IN /\ RowsOf(cachedtransaction', c) = AsTxnRows(c, txns)
                 /\ RowsOf(cachedaccount', c) = AsAcctRows(c, accounts)
                 /\ Len(RowsOf(cachedtransaction', c)) = Len(txns)
                 /\ Len(RowsOf(cachedaccount', c)) = Len(accounts) ]_vars

\* a reconcile has just committed a non-empty record list for a connection
C4_Witness ==
    \E s \in Syncs :
        /\ pc[s] \in {"reconcile", "exiting"}
        /\ ~sync[s].in_except
        /\ sync[s].idx > 1
        /\ LET j == sync[s].idx - 1
               c == sync[s].connections[j]
           IN /\ FetchedTxns(sync[s].results, j) # <<>>
              /\ RowsOf(cachedtransaction, c) =
                     AsTxnRows(c, FetchedTxns(sync[s].results, j))

\* in invocation s, connection j (still a connection of the user) had its
\* two fetches return records and its reconcile did not raise, while the
\* fetches of another connection failed
C5_Case(s, j) ==
    LET r == sync[s].results[j] IN
    /\ OwnerOf(connection, [connection_id |-> sync[s].connections[j]]) = sync[s].user_id
    /\ ~FetchFailed(r.txns)
    /\ ~FetchFailed(r.accts)
    /\ Err("DB Error", sync[s].connections[j]) \notin Range(sync[s].all_errors)
    /\ \E k \in DOMAIN sync[s].connections :
          /\ k # j
          /\ FetchFailed(sync[s].results[k].txns)
          /\ FetchFailed(sync[s].results[k].accts)

\* C5: in a sync over several connections where some connection's fetches
\* fail, every other connection whose fetches succeeded is reconciled: when
\* the sync returns its cached rows are its fetched records and the returned
\* transactions include them.
C5_OthersStillReconciled ==
    [][ \A s \in Syncs :
          ReturnStep(s) =>
              \A j \in DOMAIN sync[s].connections :
                  C5_Case(s, j) =>
                      LET c == sync[s].connections[j]
                          rows == AsTxnRows(c, sync[s].results[j].txns.recs)
                      IN /\ RowsOf(cachedtransaction', c) = rows
                         /\ RowsOf(cachedaccount', c) =
                                AsAcctRows(c, sync[s].results[j].accts.recs)
                         /\ \A r \in Range(rows) :
                                Count(resp'.transactions, r) = Count(rows, r) ]_vars

\* the loop of a sync over two connections has ended with one connection's
\* fetches failed and the other's records cached
C5_Witness ==
    \E s \in Syncs :
        /\ pc[s] = "exiting"
        /\ \E j \in DOMAIN sync[s].connections :
              /\ C5_Case(s, j)
              /\ sync[s].results[j].txns.recs # <<>>

\* C6: a sync over two connections of which exactly one fails with a network
\* error returns an error list of exactly one entry, which names the
\* failing connection.
C6_OneErrorNamingFailedConn ==
    [][ \A s \in Syncs :
          ReturnStep(s) =>
              \A j, k \in DOMAIN sync[s].connections :
                  ( /\ Len(sync[s].connections) = 2
                    /\ j # k
                    /\ NetworkFailed(sync[s].results[k].txns)
                    /\ NetworkFailed(sync[s].results[k].accts)
                    /\ ~FetchFailed(sync[s].results[j].txns)
                    /\ ~FetchFailed(sync[s].results[j].accts)
                    /\ \A e \in Range(sync[s].all_errors) : e.kind # "DB Error" )
                  => /\ Len(resp'.errors) = 1
                     /\ resp'.errors[1].conn = sync[s].connections[k] ]_vars

\* C7: a read that follows a returned sync of the same user with no request
\* in between returns the transactions that sync returned, in the same
\* order; a repeated read returns them again.
C7_ReadRepeatsSync ==
    [][ ( /\ resp.op \in {"sync", "read"}
          /\ resp'.op = "read"
          /\ resp'.user_id = resp.user_id )
        => resp'.transactions = resp.transactions ]_vars

\* a sync has returned several transactions and the next request can be a read
C7_Witness ==
    /\ resp.op = "sync"
    /\ Len(resp.transactions) >= 2
    /\ running = NoTask

\* C8: a cached read (read, accounts) starts no fetch and leaves the store
\* as it was: connections with last_synced_at, cached accounts and cached
\* transactions; and a read returns an empty error list.
C8_ReadsAreReadOnly ==
    [][ resp'.op \in {"read", "accounts"} =>
          /\ UNCHANGED <<connection, cachedtransaction, cachedaccount>>
          /\ UNCHANGED <<pc, sync, running>>
          /\ resp'.errors = <<>> ]_vars

\* a read by a user who has a connection and no cached transactions
C8_Witness ==
    /\ resp.op = "read"
    /\ resp.transactions = <<>>
    /\ \E c \in DOMAIN connection : connection[c].user_id = resp.user_id

\* the names of the cached accounts of the user's connections
C9_OwnAccountNames(u) ==
    LET rows == SelectSeq(cachedaccount, LAMBDA r : OwnerOf(connection, r) = u)
    IN [i \in DOMAIN rows |-> rows[i].name]

\* C9: read, accounts and the result of sync hold exactly the cached rows
\* whose connection belongs to the user: each such row once, and no row of
\* a connection of another user.
C9_OnlyOwnRows ==
    /\ resp.op \in {"read", "sync"} =>
          \A r \in Range(cachedtransaction) \cup Range(resp.transactions) :
              Count(resp.transactions, r) =
                  IF OwnerOf(connection, r) = resp.user_id
                  THEN Count(cachedtransaction, r) ELSE 0
    /\ resp.op = "accounts" =>
          /\ SameBag([i \in DOMAIN resp.accounts |-> resp.accounts[i].name],
                     C9_OwnAccountNames(resp.user_id))
          /\ \A i \in DOMAIN resp.accounts : ~resp.accounts[i].error

\* a read returned rows while another user has cached rows too
C9_Witness ==
    /\ resp.op = "read"
    /\ resp.transactions # <<>>
    /\ \E r \in Range(cachedtransaction) :
          OwnerOf(connection, r) \notin {0, resp.user_id}

\* C10: the transactions returned by read and by sync are ordered by date
\* descending across the user's connections.
C10_DateDescending ==
    resp.op \in {"read", "sync"} =>
        \A i \in 1..(Len(resp.transactions) - 1) :
            resp.transactions[i].date >= resp.transactions[i + 1].date

\* a returned list in which a row of a later connection precedes an older
\* row of an earlier connection
C10_Witness ==
    /\ resp.op \in {"read", "sync"}
    /\ \E i, j \in DOMAIN resp.transactions :
          /\ i < j
          /\ resp.transactions[i].connection_id > resp.transactions[j].connection_id
          /\ resp.transactions[i].date > resp.transactions[j].date

\* user u owns no connection row
NoConnections(cn, u) == \A c \in DOMAIN cn : cn[c].user_id # u

\* C11: a sync for a user with no connections starts no fetch (no provider
\* call), leaves the three tables unchanged, and returns an empty
\* transaction list with an empty error list.
C11_EmptySync ==
    [][ \A u \in Users :
          (NoConnections(connection, u) /\ NoConnections(connection', u)) =>
              /\ \A s \in Syncs :
                    (pc[s] = "idle" /\ pc'[s] # "idle") => sync'[s].user_id # u
              /\ (resp'.op = "sync" /\ resp'.user_id = u /\ pc' = pc) =>
                    /\ DB' = DB
                    /\ sync' = sync
                    /\ resp'.transactions = <<>>
                    /\ resp'.errors = <<>> ]_vars

\* a sync answered a user without connections while another user has
\* cached transactions
C11_Witness ==
    /\ resp.op = "sync"
    /\ NoConnections(connection, resp.user_id)
    /\ resp.transactions = <<>>
    /\ cachedtransaction # <<>>

\* this step is the cancellation of invocation s at one of its awaits
CancelStep(s) ==
    /\ pc[s] \in {"fetching", "closing"}
    /\ pc'[s] = "idle"
    /\ resp'.op \in {"cancelled in fetch", "cancelled in close"}

\* the cached rows of connection c are the complete record lists of one
\* gather result (or none at all): no reconcile is applied in part
CompleteSet(db, c) ==
    \E f \in FetchResults :
        /\ RowsOf(db.cachedtransaction, c) =
               AsTxnRows(c, IF f.txns.exc THEN <<>> ELSE f.txns.recs)
        /\ RowsOf(db.cachedaccount, c) =
               AsAcctRows(c, IF f.accts.exc THEN <<>> ELSE f.accts.recs)

\* C12: cancelling a sync at a suspension point changes nothing in the
\* store: what the reconciles committed before stays and is what the reads
\* return afterwards, and every connection holds a complete set of rows.
C12_CancelKeepsCommitted ==
    [][ \A s \in Syncs :
          CancelStep(s) =>
              /\ DB' = DB
              /\ \A u \in Users :
                    /\ DashboardData(DB', u) = DashboardData(DB, u)
                    /\ AccountsData(DB', u) = AccountsData(DB, u)
              /\ \A c \in DOMAIN connection' : CompleteSet(DB', c) ]_vars

\* a sync was cancelled after its reconciles, and a connection of its user
\* holds the rows of a committed reconcile
C12_Witness ==
    /\ resp.op = "cancelled in close"
    /\ \E c \in DOMAIN connection :
          /\ connection[c].user_id = resp.user_id
          /\ connection[c].last_synced_at # NULL
          /\ RowsOf(cachedtransaction, c) # <<>>
          /\ RowsOf(cachedaccount, c) # <<>>

\* C13: when the token claim raises (undecodable token, transport error or
\* non-success status), add_connection adds no connection row, starts no
\* sync and leaves the store unchanged; a connection row is added only by a
\* call whose claim succeeded.
C13_FailedClaimAddsNothing ==
    [][ /\ resp'.op = "connect raised" =>
              /\ DB' = DB
              /\ pc' = pc
              /\ sync' = sync
        /\ (DOMAIN connection' \ DOMAIN connection # {}) =>
              /\ resp'.op # "connect raised"
              /\ \E s \in Syncs :
                    /\ pc[s] = "idle"
                    /\ pc'[s] = "fetching" ]_vars

\* a claim failed for a user who has no connection, with connections of
\* another user in the store
C13_Witness ==
    /\ resp.op = "connect raised"
    /\ NoConnections(connection, resp.user_id)
    /\ connection # <<>>

\* C19: the step that deletes a connection deletes every cached account and
\* cached transaction of it and no other row; reads after it return no row
\* of the deleted connection.
C19_DisconnectCascades ==
    [][ \A c \in ConnIds :
          (c \in DOMAIN connection /\ c \notin DOMAIN connection') =>
              /\ cachedtransaction' =
                     SelectSeq(cachedtransaction, LAMBDA r : r.connection_id # c)
              /\ cachedaccount' =
                     SelectSeq(cachedaccount, LAMBDA r : r.connection_id # c)
              /\ RowsOf(cachedtransaction', c) = <<>>
              /\ RowsOf(cachedaccount', c) = <<>>
              /\ \A u \in Users :
                    /\ \A r \in Range(DashboardData(DB', u).transactions) :
                          r.connection_id # c
                    /\ Len(AccountsData(DB', u)) =
                          Len(SelectSeq(cachedaccount, LAMBDA r :
                                  r.connection_id # c
                                  /\ OwnerOf(connection, r) = u)) ]_vars

\* a connection was deleted (ids are handed out from 1 upward, so the
\* missing lower id was a connection), and the rows of the other connection
\* are still cached
C19_Witness ==
    /\ resp.op = "disconnected"
    /\ \E c, d \in ConnIds :
          /\ c < d
          /\ c \notin DOMAIN connection
          /\ d \in DOMAIN connection
          /\ RowsOf(cachedtransaction, d) # <<>>
          /\ RowsOf(cachedaccount, d) # <<>>

\* C20: an iteration of a sync's reconcile loop runs only when the gather
\* holds a result for every connection of the sync, holds the event loop,
\* with no other invocation inside its reconcile loop, and writes only the
\* connection at the loop's position, which then moves on by one.
C20_ReconcilesInOrder ==
    [][ \A s \in Syncs :
          IterationStep(s) =>
              /\ DOMAIN sync[s].results = DOMAIN sync[s].connections
              /\ running = s
              /\ \A t \in Syncs \ {s} : pc[t] \notin {"reconcile", "exiting"}
              /\ sync'[s].connections = sync[s].connections
              /\ \A i \in 1..(Len(sync[s].connections) - 1) :
                    sync[s].connections[i] < sync[s].connections[i + 1]
              /\ \A c \in DOMAIN connection \ {IterConn(s)} :
                    /\ c \in DOMAIN connection'
                    /\ connection'[c] = connection[c]
                    /\ RowsOf(cachedtransaction', c) = RowsOf(cachedtransaction, c)
                    /\ RowsOf(cachedaccount', c) = RowsOf(cachedaccount, c) ]_vars

\* one invocation stands between its first and its second reconcile while
\* another invocation is still fetching
C20_Witness ==
    \E s, t \in Syncs :
        /\ s # t
        /\ pc[s] = "reconcile"
        /\ sync[s].idx = 2
        /\ pc[t] = "fetching"

\* the balance of an account dict does not convert to a number
MalformedBalance(data) ==
    data.balance # Missing /\ ~ParsesAsDecimal(StripCommas(data.balance))

\* C14: get_accounts and get_transactions never raise when the request
\* fails in transport, the status is not a success, the body is not JSON,
\* or the response reports errors; they return no records and the failure's
\* string when no body was obtained, and the provider's strings verbatim
\* with the parsed records otherwise.
C14_FailuresBecomeErrors ==
    fetched.op # "none" =>
        /\ (remote.kind # "json" \/ remote.errors # <<>>) => ~fetched.result.exc
        /\ remote.kind \in {"transport error", "bad status"} =>
              /\ fetched.result.recs = <<>>
              /\ fetched.result.errs = <<NetworkError>>
        /\ remote.kind = "not json" =>
              /\ fetched.result.recs = <<>>
              /\ fetched.result.errs = <<NotJsonError>>
        /\ (remote.kind = "json" /\ ~fetched.result.exc) =>
              fetched.result.errs = remote.errors

\* C15: an account record with a malformed balance parses to an account
\* with balance zero; get_accounts returns one account per record of the
\* response and does not raise.
C15_MalformedBalanceIsZero ==
    (fetched.op = "get_accounts" /\ remote.kind = "json") =>
        /\ ~fetched.result.exc
        /\ Len(fetched.result.recs) = Len(remote.accounts)
        /\ \A i \in DOMAIN remote.accounts :
              /\ fetched.result.recs[i].id = remote.accounts[i].id
              /\ MalformedBalance(remote.accounts[i]) =>
                    fetched.result.recs[i].balance = 0

\* the position of the transaction with identity id in a list (the response
\* numbers its transactions)
PositionOf(transactions, id) ==
    CHOOSE i \in DOMAIN transactions : transactions[i].id = id

C17_RoundTrip ==
    /\ (raw_access_url.claimed /\ raw_access_url.url = EmptyString) =>
          access_url = EmptyString
    /\ (raw_access_url.claimed /\ real_url.at # "unset"
        /\ (raw_access_url.url = EmptyString \/ ValidToken(key, access_url))) =>
          /\ real_url.at = "provider"
          /\ real_url.url = raw_access_url.url
    /\ (access_url = EmptyString /\ real_url.at # "unset") =>
          real_url = [at |-> "provider", url |-> EmptyString]

\* a non-empty URL was encrypted and then decrypted under the same key
C17_Witness ==
    /\ raw_access_url.claimed
    /\ raw_access_url.url # EmptyString
    /\ ValidToken(key, access_url)
    /\ access_url # raw_access_url.url
    /\ real_url.at = "provider"
    /\ real_url.url = raw_access_url.url

\* C18: decrypt never raises; for a stored string that is not a token of
\* the current key (a token of another key, or no token at all) it returns
\* the string itself, and the sync goes on with that string as the URL.
C18_FallbackReturnsToken ==
    /\ real_url.at # "raised"
    /\ (real_url.at = "provider" /\ access_url # EmptyString
        /\ ~ValidToken(key, access_url)) =>
          real_url.url = access_url

\* the URL was encrypted under one key and decrypted for a sync under
\* another: the provider got the stored token
C18_Witness ==
    /\ raw_access_url.claimed
    /\ access_url.layers # <<>>
    /\ ~ValidToken(key, access_url)
    /\ real_url = [at |-> "provider", url |-> access_url]

\* this step ends invocation s after its gather completed, other than by
\* the caller's cancellation
EndStep(s) ==
    /\ pc[s] \in {"reconcile", "exiting", "closing"}
    /\ pc'[s] = "idle"
    /\ ~CancelStep(s)

\* C21: every sync invocation whose fetches have all completed or failed
\* ends by returning the re-read cache of its user; no exception leaves
\* sync_data, whatever the fetches and reconciles did and whatever requests
\* ran in between.
C21_SyncAlwaysReturns ==
    [][ \A s \in Syncs :
          EndStep(s) =>
              /\ resp'.op = "sync"
              /\ resp'.user_id = sync[s].user_id
              /\ resp'.transactions =
                     DashboardData(DB', sync[s].user_id).transactions ]_vars

\* this step is an iteration of s's reconcile loop for connection c that
\* committed
CommittedReconcile(s, c) ==
    /\ IterationStep(s)
    /\ IterConn(s) = c
    /\ ~sync'[s].in_except

StoreStep ==
    /\ raw_access_url'.claimed
    /\ (raw_access_url' # raw_access_url \/ access_url' # access_url)

\* C23 as stated: the access_url of a connection row is the encryption,
\* under the configured key, of the access URL the claim returned, and in
\* every state differs from that URL.
C23_StoredIsNeverPlaintext ==
    [][ /\ StoreStep =>
              \E iv \in IVs : access_url' = Encrypt(key', iv, raw_access_url'.url)
        /\ raw_access_url'.claimed => access_url' # raw_access_url'.url ]_vars

\* C23, amended: what add_connection stores is encrypt(claimed URL) under
\* the configured key; for a non-empty URL that is a token of the key which
\* decrypts to the URL and, in every state (also after the key changed),
\* differs from the URL; an empty URL is stored as the empty string.
C23_StoredIsEncrypted ==
    [][ /\ StoreStep =>
              /\ \E iv \in IVs : access_url' = Encrypt(key', iv, raw_access_url'.url)
              /\ raw_access_url'.url # EmptyString =>
                    /\ ValidToken(key', access_url')
                    /\ Decrypt(key', access_url').value = raw_access_url'.url
        /\ raw_access_url'.claimed =>
              IF raw_access_url'.url = EmptyString
              THEN access_url' = EmptyString
              ELSE /\ access_url' # raw_access_url'.url
                   /\ access_url'.layers # <<>>
                   /\ access_url'.text = raw_access_url'.url.text ]_vars

\* a claimed URL is stored as a token and the key has changed since
C23_Witness ==
    /\ raw_access_url.claimed
    /\ raw_access_url.url # EmptyString
    /\ access_url.layers # <<>>
    /\ ~ValidToken(key, access_url)
    /\ real_url.at = "unset"

\* this step is a get_provider call made after a save_config wrote the file
ReadBackStep == config_file.written /\ provider'.at # "unset"

\* C24: after save_config wrote the config file, get_config returns the
\* saved provider name and the saved payload with its string values in
\* plaintext, and get_provider builds the provider with the saved access
\* URL; also when the keyring did not store the generated key.
C24_ConfigRoundTrip ==
    [][ ReadBackStep =>
          /\ conf' = saved
          /\ ( /\ saved.provider = "simplefin"
               /\ StringValue(saved.payload.access_url)
               /\ saved.payload.access_url # EmptyString )
             => provider' = [at |-> "built",
                             access_url |-> saved.payload.access_url] ]_vars

\* C25: when both fetches of a connection failed (each returned no records
\* and an error, or raised), the connection's reconcile runs with empty
\* record lists; when it commits, the connection has no cached transaction
\* and no cached account left and its last_synced_at is set: what was
\* cached before is gone.
C25_FailedFetchWipesCache ==
    [][ \A s \in Syncs :
          ( /\ IterationStep(s)
            /\ FetchFailed(IterResult(s).txns)
            /\ FetchFailed(IterResult(s).accts) )
          => /\ FetchedTxns(sync[s].results, sync[s].idx) = <<>>
             /\ FetchedAccounts(sync[s].results, sync[s].idx) = <<>>
             /\ ~sync'[s].in_except =>
                   /\ RowsOf(cachedtransaction', IterConn(s)) = <<>>
                   /\ RowsOf(cachedaccount', IterConn(s)) = <<>>
                   /\ connection'[IterConn(s)].last_synced_at \in Times ]_vars

\* a sync of one connection failed in both fetches and committed its
\* reconcile, while an earlier sync of the same user that reconciled before
\* it is still closing: the connection is synced and holds no rows
C25_Witness ==
    \E s, t \in Syncs :
        /\ s # t
        /\ pc[t] = "closing"
        /\ pc[s] = "exiting"
        /\ sync[s].user_id = sync[t].user_id
        /\ ~sync[s].in_except
        /\ Len(sync[s].connections) = 1
        /\ FetchFailed(sync[s].results[1].txns)
        /\ FetchFailed(sync[s].results[1].accts)
        /\ connection[sync[s].connections[1]].last_synced_at # NULL
        /\ RowsOf(cachedtransaction, sync[s].connections[1]) = <<>>
        /\ RowsOf(cachedaccount, sync[s].connections[1]) = <<>>

\* invocation s enumerated connection c as a connection of its user, and c
\* is still that connection: a connection row keeps its user_id for as long
\* as it exists, so a row of id c under another user is a connection
\* inserted after the enumerated one was deleted
StillEnumerated(s, c) ==
    /\ c \in DOMAIN connection
    /\ connection[c].user_id = sync[s].user_id

\* C26: in every state, under every interleaving of add_connection, sync
\* and disconnect, each cached transaction and cached account references an
\* existing connection row; and a sync creates no rows for a connection
\* that was deleted during its fetch phase.
C26_NoRowsForDeletedConnection ==
    [][ /\ \A r \in Range(cachedtransaction') : r.connection_id \in DOMAIN connection'
        /\ \A r \in Range(cachedaccount') : r.connection_id \in DOMAIN connection'
        /\ \A s \in Syncs :
              ( /\ CommittedReconcile(s, IterConn(s))
                /\ \/ RowsOf(cachedtransaction', IterConn(s)) # <<>>
                   \/ RowsOf(cachedaccount', IterConn(s)) # <<>> )
              => StillEnumerated(s, IterConn(s)) ]_vars

\* the part of C26 that holds: no cached row is left without its
\* connection row
C26_NoOrphans ==
    /\ \A r \in Range(cachedtransaction) : r.connection_id \in DOMAIN connection
    /\ \A r \in Range(cachedaccount) : r.connection_id \in DOMAIN connection

\* invocations s and t are two sync_data calls for the same user in flight
\* at once; while s runs its reconcile loop, t is suspended before its own
\* (fetching) or after it (closing)
Concurrent(s, t) ==
    /\ s # t
    /\ pc[t] \in {"fetching", "closing"}
    /\ sync[t].user_id = sync[s].user_id

\* C27: with two syncs of one user in flight, a committed reconcile leaves
\* the connection with exactly the records its own invocation fetched, one
\* row per record, whatever the other invocation stored before; so each
\* connection holds the records of the invocation that committed last, and
\* in every state the rows of a connection are the complete lists of one
\* gather result, never a mixture.
C27_LastCommitWins ==
    [][ /\ \A c \in DOMAIN connection' : CompleteSet(DB', c)
        /\ \A s, t \in Syncs :
              (Concurrent(s, t) /\ CommittedReconcile(s, IterConn(s))) =>
                  LET c == IterConn(s)
                      txns == FetchedTxns(sync[s].results, sync[s].idx)
                      accounts == FetchedAccounts(sync[s].results, sync[s].idx)
                  IN /\ RowsOf(cachedtransaction', c) = AsTxnRows(c, txns)
                     /\ RowsOf(cachedaccount', c) = AsAcctRows(c, accounts)
                     /\ \A d \in DOMAIN connection \ {c} :
                           /\ RowsOf(cachedtransaction', d) = RowsOf(cachedtransaction, d)
                           /\ RowsOf(cachedaccount', d) = RowsOf(cachedaccount, d) ]_vars

\* two syncs of one user: the first has reconciled and is closing, the
\* second has just committed two accounts and two transactions for the
\* connection, which holds exactly those
C27_Witness ==
    \E s, t \in Syncs :
        /\ pc[s] = "exiting"
        /\ Concurrent(s, t)
        /\ pc[t] = "closing"
        /\ ~sync[s].in_except
        /\ Len(sync[s].connections) = 1
        /\ Len(sync[s].results[1].accts.recs) = 2
        /\ RowsOf(cachedaccount, sync[s].connections[1]) =
               AsAcctRows(sync[s].connections[1], sync[s].results[1].accts.recs)
        /\ RowsOf(cachedtransaction, sync[s].connections[1]) =
               AsTxnRows(sync[s].connections[1], sync[s].results[1].txns.recs)

\* C28: a disconnect request of user u for connection c deletes the
\* connection only when c exists and belongs to u, and then deletes that
\* connection alone; a request for a connection of another user or for no
\* connection leaves the connections and every cached row as they were.
C28_DisconnectOnlyOwn ==
    [][ /\ \A c \in DOMAIN connection :
              c \notin DOMAIN connection' =>
                  /\ resp'.op = "disconnected"
                  /\ resp'.user_id = connection[c].user_id
                  /\ DOMAIN connection' = DOMAIN connection \ {c}
        /\ resp'.op = "disconnected" =>
              \E c \in DOMAIN connection :
                  /\ connection[c].user_id = resp'.user_id
                  /\ c \notin DOMAIN connection'
        /\ resp'.op = "not disconnected" => DB' = DB ]_vars

\* a disconnect request changed nothing: every connection is another
\* user's, and one of them has cached rows
C28_Witness ==
    /\ resp.op = "not disconnected"
    /\ connection # <<>>
    /\ \A c \in DOMAIN connection : connection[c].user_id # resp.user_id
    /\ cachedtransaction # <<>>
    /\ cachedaccount # <<>>
====
